---------------------------- MODULE Spec2Model ----------------------------
(***************************************************************************)
(* A model of src/script.py: the Starlink telemetry poller that renders    *)
(* Prometheus exposition lines and serves the latest snapshot over HTTP.   *)
(*                                                                         *)
(* Python strings are sequences of one-character strings, so that          *)
(* startswith/slicing/lower()/re.sub act on the characters.  JSON values   *)
(* are tagged records:                                                     *)
(*    [t |-> "none"]                 None                                  *)
(*    [t |-> "str",  s |-> chars]    a string                              *)
(*    [t |-> "num",  n |-> Int]      an integer number                     *)
(*    [t |-> "list", l |-> values]   a list                                *)
(* A dict is the sequence of its <<key, value>> items in insertion order.  *)
(***************************************************************************)
EXTENDS Integers, Sequences, FiniteSets, TLC

VARIABLES
    pc,              \* position of the poll_stream thread
    access_token,    \* poll_stream's local access_token
    tokens_issued,   \* number of get_starlink_access_token() calls answered
    response,        \* the response of the last stream request
    request_token,   \* the bearer token the last stream request carried
    records,         \* poll_stream's local records
    ip_lookup,       \* poll_stream's local ip_lookup
    stdout,          \* per record, the lines print()ed for it in this cycle
    collected_lines, \* poll_stream's local collected_lines
    latest_lines,    \* the module-level shared buffer
    latest_lock,     \* holder of latest_lock: "free", "poller" or a handler
    write_idx,       \* progress of the slice assignment latest_lines[:] = ...
    elapsed,         \* time.time() - start_time, as of now
    sleep_duration,  \* poll_stream's local sleep_duration
    slept,           \* has time.sleep run since the last stream request
    fail_streak,     \* consecutive failed stream requests up to now
    h_pc,            \* per handler thread: position in do_GET
    h_body,          \* per handler thread: the local body
    last_success,    \* history: lines of the latest completed success cycle
    last_published,  \* history: collected_lines of the latest completed publish
    any_success      \* history: has a success cycle completed

vars == <<pc, access_token, tokens_issued, response, request_token, records,
          ip_lookup, stdout, collected_lines, latest_lines, latest_lock,
          write_idx, elapsed, sleep_duration, slept, fail_streak, h_pc,
          h_body, last_success, last_published,
          any_success>>

---------------------------------------------------------------------------
(* Bounds of the model. *)

\* telemetry entries per stream response
MaxEntries == 2
\* concurrent GET handler threads
NumHandlers == 2
\* token acquisitions before the stream endpoint stops rejecting requests
MaxTokens == 3
\* the longest a stream request may take, in seconds
MaxDuration == 16

---------------------------------------------------------------------------
(* Values, strings and dicts. *)

None == [t |-> "none"]
S(chars) == [t |-> "str", s |-> chars]
N(n) == [t |-> "num", n |-> n]
L(items) == [t |-> "list", l |-> items]

IsStr(v) == v.t = "str"
IsList(v) == v.t = "list"

Min(a, b) == IF a <= b THEN a ELSE b
Max(a, b) == IF a >= b THEN a ELSE b

Digits == <<"0", "1", "2", "3", "4", "5", "6", "7", "8", "9">>
UpperCase == <<"A", "B", "C", "D", "E", "F", "G", "H", "I", "J", "K", "L", "M",
               "N", "O", "P", "Q", "R", "S", "T", "U", "V", "W", "X", "Y", "Z">>
LowerCase == <<"a", "b", "c", "d", "e", "f", "g", "h", "i", "j", "k", "l", "m",
               "n", "o", "p", "q", "r", "s", "t", "u", "v", "w", "x", "y", "z">>

Range(seq) == {seq[i] : i \in DOMAIN seq}
IsDigit(c) == c \in Range(Digits)
DigitVal(c) == (CHOOSE i \in DOMAIN Digits : Digits[i] = c) - 1

\* str.lower() on one character
LowerChar(c) ==
    IF c \in Range(UpperCase)
    THEN LowerCase[CHOOSE i \in DOMAIN UpperCase : UpperCase[i] = c]
    ELSE c

\* str.lower()
Lower(chars) == [i \in DOMAIN chars |-> LowerChar(chars[i])]

\* str.startswith
StartsWith(chars, prefix) ==
    /\ Len(chars) >= Len(prefix)
    /\ SubSeq(chars, 1, Len(prefix)) = prefix

\* chars[n:]
Drop(chars, n) == SubSeq(chars, n + 1, Len(chars))

RECURSIVE Flatten(_)
Flatten(seqs) == IF seqs = <<>> THEN <<>> ELSE Head(seqs) \o Flatten(Tail(seqs))

RECURSIVE NatToChars(_)
NatToChars(n) ==
    IF n < 10 THEN <<Digits[n + 1]>>
    ELSE NatToChars(n \div 10) \o <<Digits[(n % 10) + 1]>>

\* str(value), for None, strings and integers
Str(v) ==
    CASE v.t = "str" -> v.s
      [] v.t = "num" -> IF v.n < 0 THEN <<"-">> \o NatToChars(-v.n) ELSE NatToChars(v.n)
      [] v.t = "none" -> <<"N", "o", "n", "e">>

\* sep.join(parts)
RECURSIVE Join(_, _)
Join(parts, sep) ==
    IF parts = <<>> THEN <<>>
    ELSE IF Len(parts) = 1 THEN parts[1]
    ELSE parts[1] \o sep \o Join(Tail(parts), sep)

\* [f(x) for x in seq if keep(x)] building blocks
RECURSIVE SelectNotNone(_)
SelectNotNone(items) ==
    IF items = <<>> THEN <<>>
    ELSE IF Head(items) = None THEN SelectNotNone(Tail(items))
    ELSE <<Head(items)>> \o SelectNotNone(Tail(items))

\* bool(value)
Truthy(v) ==
    CASE v.t = "none" -> FALSE
      [] v.t = "str" -> v.s # <<>>
      [] v.t = "num" -> v.n # 0
      [] v.t = "list" -> v.l # <<>>

\* value in (None, '')
IsNoneOrEmptyStr(v) == v = None \/ v = S(<<>>)

\* key in d
Has(d, k) == \E i \in DOMAIN d : d[i][1] = k

\* d.get(k, default)
Get(d, k, default) ==
    IF Has(d, k) THEN d[CHOOSE i \in DOMAIN d : d[i][1] = k][2] ELSE default

\* d[k] = v : an existing key keeps its place, a new key goes last
Put(d, k, v) ==
    IF Has(d, k)
    THEN [i \in DOMAIN d |-> IF d[i][1] = k THEN <<k, v>> ELSE d[i]]
    ELSE Append(d, <<k, v>>)

\* {**a, **b}
RECURSIVE Merge(_, _)
Merge(a, b) == IF b = <<>> THEN a ELSE Merge(Put(a, b[1][1], b[1][2]), Tail(b))

\* d.get(key) of a dict with string keys, looked up with any value
GetByValue(d, v, default) == IF IsStr(v) THEN Get(d, v.s, default) ELSE default

---------------------------------------------------------------------------
(* The string literals of script.py. *)

K_DeviceType == <<"D", "e", "v", "i", "c", "e", "T", "y", "p", "e">>
K_DeviceId == <<"D", "e", "v", "i", "c", "e", "I", "d">>
K_UtcTimestampNs == <<"U", "t", "c", "T", "i", "m", "e", "s", "t", "a", "m", "p", "N", "s">>
K_Alerts == <<"A", "l", "e", "r", "t", "s">>
K_ActiveAlerts == <<"A", "c", "t", "i", "v", "e", "A", "l", "e", "r", "t", "s">>
K_ActiveAlertIds == <<"A", "c", "t", "i", "v", "e", "A", "l", "e", "r", "t", "I", "d", "s">>
K_Ipv4 == <<"I", "p", "v", "4">>
K_Ipv6Ue == <<"I", "p", "v", "6", "U", "e">>
K_Ipv6Cpe == <<"I", "p", "v", "6", "C", "p", "e">>
L_device_type == <<"d", "e", "v", "i", "c", "e", "_", "t", "y", "p", "e">>
L_deviceID == <<"d", "e", "v", "i", "c", "e", "I", "D">>
P_starlink == <<"s", "t", "a", "r", "l", "i", "n", "k", "_">>
P_alert == <<"s", "t", "a", "r", "l", "i", "n", "k", "_", "a", "l", "e", "r", "t", "_", "a", "c", "t", "i", "v", "e", "_">>
P_numeric == <<"_", "n", "u", "m", "e", "r", "i", "c">>
M_starlink_info == <<"s", "t", "a", "r", "l", "i", "n", "k", "_", "i", "n", "f", "o">>
P_ip == <<"i", "p", "-">>

\* ALERT_FIELDS = ('Alerts', 'ActiveAlerts', 'ActiveAlertIds')
ALERT_FIELDS == <<K_Alerts, K_ActiveAlerts, K_ActiveAlertIds>>

\* the keys format_line_protocol reads from the IP-allocation record
IP_FIELDS == <<K_Ipv4, K_Ipv6Ue, K_Ipv6Cpe>>

\* the device-type codes script.py names
CodeRouter == S(<<"r">>)
CodeIp == S(<<"i">>)
CodeUserTerminal == S(<<"u">>)

---------------------------------------------------------------------------
(* The pure functions of script.py. *)

\* map_entry_to_record (src/script.py:81-85): the dict comprehension over
\* enumerate(columns), keeping the columns whose index is inside the entry.
\* Python index idx is position idx + 1 here.
RECURSIVE MapColumns(_, _, _, _)
MapColumns(entry, columns, pos, acc) ==
    IF pos > Len(columns) THEN acc
    ELSE IF pos - 1 < Len(entry)
         THEN MapColumns(entry, columns, pos + 1, Put(acc, columns[pos], entry[pos]))
         ELSE MapColumns(entry, columns, pos + 1, acc)

\* the comprehension as a bug would write it, skipping the device-type code
RECURSIVE MapColumnsOffset(_, _, _, _)
MapColumnsOffset(entry, columns, pos, acc) ==
    IF pos > Len(columns) THEN acc
    ELSE IF pos < Len(entry)
         THEN MapColumnsOffset(entry, columns, pos + 1,
                               Put(acc, columns[pos], entry[pos + 1]))
         ELSE MapColumnsOffset(entry, columns, pos + 1, acc)

map_entry_to_record_offset(entry, columns) == MapColumnsOffset(entry, columns, 1, <<>>)

map_entry_to_record(entry, columns) == MapColumns(entry, columns, 1, <<>>)

\* clean_field_value (src/script.py:87-95)
clean_field_value(value) ==
    IF value = None THEN None
    ELSE IF IsList(value)
         THEN LET kept == SelectNotNone(value.l)
              IN  S(Join([i \in DOMAIN kept |-> Str(kept[i])], <<";">>))
         ELSE value

\* extract_alert_codes (src/script.py:97-108): the loop from ALERT_FIELDS[pos] on
RECURSIVE AlertCodesFrom(_, _)
AlertCodesFrom(record, pos) ==
    IF pos > Len(ALERT_FIELDS) THEN <<>>
    ELSE LET field == ALERT_FIELDS[pos]
             val == Get(record, field, None)
         IN  IF ~Has(record, field) THEN AlertCodesFrom(record, pos + 1)
             ELSE IF IsList(val)
                  THEN LET kept == SelectNotNone(val.l)
                       IN  [i \in DOMAIN kept |-> Str(kept[i])]
                  ELSE IF ~IsNoneOrEmptyStr(val) THEN <<Str(val)>>
                       ELSE AlertCodesFrom(record, pos + 1)

extract_alert_codes(record) == AlertCodesFrom(record, 1)

\* the escapes of sanitize_label_value on one character
EscapeChar(c) ==
    CASE c = "\\" -> <<"\\", "\\">>
      [] c = "\n" -> <<"\\", "n">>
      [] c = "\"" -> <<"\\", "\"">>
      [] OTHER -> <<c>>

\* sanitize_label_value (src/script.py:110-114)
sanitize_label_value(value) ==
    LET chars == Str(value)
    IN  Flatten([i \in DOMAIN chars |-> EscapeChar(chars[i])])

\* [a-zA-Z0-9_:]
IsMetricChar(c) ==
    \/ c \in Range(LowerCase)
    \/ c \in Range(UpperCase)
    \/ IsDigit(c)
    \/ c \in {"_", ":"}

\* sanitize_metric_name (src/script.py:116-120)
sanitize_metric_name(name) ==
    [i \in DOMAIN name |-> IF IsMetricChar(name[i]) THEN name[i] ELSE "_"]

---------------------------------------------------------------------------
(* Floats.  A float is NoFloat (Python's None), a decimal m / 10^e with no *)
(* trailing zero in the fraction, or one of the specials nan and inf.      *)

NoFloat == [f |-> "none"]

RECURSIVE Decimal(_, _)
Decimal(m, e) ==
    IF e > 0 /\ m % 10 = 0 THEN Decimal(m \div 10, e - 1)
    ELSE [f |-> "dec", m |-> m, e |-> e]

RECURSIVE DigitsToNat(_)
DigitsToNat(chars) ==
    IF chars = <<>> THEN 0
    ELSE 10 * DigitsToNat(SubSeq(chars, 1, Len(chars) - 1)) + DigitVal(chars[Len(chars)])

AllDigits(chars) == \A i \in DOMAIN chars : IsDigit(chars[i])

\* float(str), for the texts made of a sign, digits, one point, and the names
\* nan, inf and infinity in any case.  Exponents, underscores and surrounding
\* blanks are not modelled: no input of the model holds them.
ParseFloat(chars) ==
    LET signed == chars # <<>> /\ chars[1] \in {"+", "-"}
        sign == IF signed /\ chars[1] = "-" THEN -1 ELSE 1
        body == IF signed THEN Tail(chars) ELSE chars
        points == {i \in DOMAIN body : body[i] = "."}
        point == IF points = {} THEN Len(body) + 1 ELSE CHOOSE i \in points : TRUE
        whole == SubSeq(body, 1, point - 1)
        frac == SubSeq(body, point + 1, Len(body))
    IN  IF Lower(body) = <<"n", "a", "n">> THEN [f |-> "nan"]
        ELSE IF Lower(body) \in {<<"i", "n", "f">>, <<"i", "n", "f", "i", "n", "i", "t", "y">>}
             THEN [f |-> "inf", sign |-> sign]
        ELSE IF /\ Cardinality(points) <= 1
                /\ AllDigits(whole)
                /\ AllDigits(frac)
                /\ Len(whole) + Len(frac) > 0
             THEN Decimal(sign * DigitsToNat(whole \o frac), Len(frac))
             ELSE NoFloat

\* to_float (src/script.py:122-126): float() raises TypeError for None and lists
to_float(value) ==
    CASE value.t = "num" -> Decimal(value.n, 0)
      [] value.t = "str" -> ParseFloat(value.s)
      [] value.t \in {"none", "list"} -> NoFloat

\* chars.split(".")
RECURSIVE SplitDots(_, _)
SplitDots(chars, part) ==
    IF chars = <<>> THEN <<part>>
    ELSE IF Head(chars) = "." THEN <<part>> \o SplitDots(Tail(chars), <<>>)
    ELSE SplitDots(Tail(chars), Append(part, Head(chars)))

\* one octet of a dotted quad: 1 to 3 digits, no leading zero, at most 255
IsOctet(chars) ==
    /\ Len(chars) \in 1..3
    /\ AllDigits(chars)
    /\ (Len(chars) > 1 => chars[1] # "0")
    /\ DigitsToNat(chars) <= 255

\* ip_to_numeric (src/script.py:128-142).  An IPv4 text gives its integer; an
\* integer n >= 0 is the address n; anything else ipaddress rejects.  IPv6
\* texts (with a colon) are not modelled: no input of the model holds one.
ip_to_numeric(ip_str) ==
    CASE ip_str.t = "str" /\ ":" \notin Range(ip_str.s) ->
            LET parts == SplitDots(ip_str.s, <<>>)
            IN  IF Len(parts) = 4 /\ \A i \in 1..4 : IsOctet(parts[i])
                THEN Decimal(((DigitsToNat(parts[1]) * 256 + DigitsToNat(parts[2])) * 256
                               + DigitsToNat(parts[3])) * 256 + DigitsToNat(parts[4]), 0)
                ELSE NoFloat
      [] ip_str.t = "num" -> IF ip_str.n >= 0 THEN Decimal(ip_str.n, 0) ELSE NoFloat
      [] ip_str.t \in {"none", "list"} -> NoFloat

---------------------------------------------------------------------------
(* Exposition lines.  A line  name{k="v",...} value  is the record of its  *)
(* metric name, its labels in order (values already escaped) and its       *)
(* value: a float, or the literal 1 of the info and alert lines.           *)

One == [f |-> "int", m |-> 1]

Line(name, labels, value) == [name |-> name, labels |-> labels, value |-> value]

\* ",".join(f'{k}="{sanitize_label_value(v)}"' for k, v in labels.items())
LabelStr(labels) ==
    [i \in DOMAIN labels |-> <<labels[i][1], sanitize_label_value(labels[i][2])>>]

\* format_line_protocol, the loop over record.items() (src/script.py:157-175)
RECURSIVE ClassifyFrom(_, _, _)
ClassifyFrom(record, pos, acc) ==
    IF pos > Len(record) THEN acc
    ELSE LET key == record[pos][1]
             value == record[pos][2]
             cleaned_value == clean_field_value(value)
             numeric_val == to_float(cleaned_value)
         IN  IF key \in {K_DeviceType, K_UtcTimestampNs, K_DeviceId}
             THEN ClassifyFrom(record, pos + 1, acc)
             ELSE IF key \in Range(ALERT_FIELDS)
             THEN ClassifyFrom(record, pos + 1, acc)
             ELSE IF cleaned_value = None \/ cleaned_value = S(<<>>)
             THEN ClassifyFrom(record, pos + 1, acc)
             ELSE IF numeric_val # NoFloat
             THEN ClassifyFrom(record, pos + 1,
                    [acc EXCEPT !.numeric_metrics =
                        Append(@, <<sanitize_metric_name(P_starlink \o key), numeric_val>>)])
             ELSE ClassifyFrom(record, pos + 1,
                    [acc EXCEPT !.info_fields =
                        Put(@, sanitize_metric_name(Lower(key)), S(Str(cleaned_value)))])

Classify(record) == ClassifyFrom(record, 1, [numeric_metrics |-> <<>>, info_fields |-> <<>>])

\* the lines of one IP field of the joined IP-allocation record
\* (src/script.py:194-205)
IpFieldLines(key, raw_val, base_labels) ==
    IF IsNoneOrEmptyStr(raw_val) THEN <<>>
    ELSE LET values == IF IsList(raw_val) THEN raw_val.l ELSE <<raw_val>>
             OneLine(idx) ==
                 LET numeric_ip == ip_to_numeric(values[idx])
                     metric_suffix == IF Len(values) > 1
                                      THEN <<"_">> \o NatToChars(idx - 1) ELSE <<>>
                     metric_name == sanitize_metric_name(
                                        P_starlink \o key \o P_numeric \o metric_suffix)
                 IN  IF numeric_ip = NoFloat THEN <<>>
                     ELSE <<Line(metric_name, LabelStr(base_labels), numeric_ip)>>
         IN  Flatten([idx \in DOMAIN values |-> OneLine(idx)])

\* format_line_protocol (src/script.py:144-213)
format_line_protocol(record, device_type_names, lookup) ==
    LET device_type_code == Get(record, K_DeviceType, None)
        device_type_label == GetByValue(device_type_names, device_type_code, device_type_code)
        raw_id == Get(record, K_DeviceId, None)
        device_id == IF /\ device_type_code = CodeIp
                        /\ IsStr(raw_id)
                        /\ StartsWith(raw_id.s, P_ip)
                     THEN S(Drop(raw_id.s, 3))
                     ELSE raw_id
        classified == Classify(record)
        base_labels == << <<L_device_type, device_type_label>>, <<L_deviceID, device_id>> >>
        metric_lines ==
            [i \in DOMAIN classified.numeric_metrics |->
                Line(classified.numeric_metrics[i][1], LabelStr(base_labels),
                     classified.numeric_metrics[i][2])]
        ip_record == Get(lookup, device_id, <<>>)
        ip_lines ==
            IF device_type_code # CodeIp /\ ip_record # <<>>
            THEN Flatten([k \in DOMAIN IP_FIELDS |->
                    IpFieldLines(IP_FIELDS[k], Get(ip_record, IP_FIELDS[k], None), base_labels)])
            ELSE <<>>
        info_lines ==
            IF classified.info_fields # <<>>
            THEN <<Line(M_starlink_info,
                        LabelStr(Merge(base_labels, classified.info_fields)), One)>>
            ELSE <<>>
    IN  IF Get(record, K_UtcTimestampNs, None) = None \/ device_id = None
        THEN <<>>
        ELSE metric_lines \o ip_lines \o info_lines

\* format_alert_lines (src/script.py:215-245)
format_alert_lines(record, device_type_names, alert_names_by_device) ==
    LET device_type_code == Get(record, K_DeviceType, None)
        device_id == Get(record, K_DeviceId, None)
        alert_codes == extract_alert_codes(record)
        device_type_label == GetByValue(device_type_names, device_type_code, device_type_code)
        alert_name_map == GetByValue(alert_names_by_device, device_type_code, <<>>)
        labels == << <<L_device_type, device_type_label>>, <<L_deviceID, device_id>> >>
    IN  IF device_type_code # CodeUserTerminal THEN <<>>
        ELSE IF device_id = None THEN <<>>
        ELSE IF alert_codes = <<>> THEN <<>>
        ELSE [i \in DOMAIN alert_codes |->
                Line(sanitize_metric_name(
                        P_alert \o Get(alert_name_map, alert_codes[i], alert_codes[i])),
                     LabelStr(labels), One)]

---------------------------------------------------------------------------
(* The stream responses the model draws from.  A response is its status    *)
(* code and, for a success, data.values, data.columnNamesByDeviceType and  *)
(* the two metadata.enums catalogs.                                        *)

\* field names that differ before, and agree after, lower() and the
\* metric-name sanitization
K_FieldA == <<"A", "-", "b">>
K_FieldB == <<"a", ".", "b">>

ColumnNamesByDeviceType ==
    << <<<<"u">>, <<K_DeviceType, K_DeviceId, K_UtcTimestampNs, K_Alerts, K_FieldA, K_FieldB>>>>,
       <<<<"i">>, <<K_DeviceType, K_DeviceId, K_UtcTimestampNs, K_Ipv4>>>>,
       <<<<"r">>, <<K_DeviceType, K_DeviceId, K_UtcTimestampNs>>>> >>

DeviceTypeNames == << <<<<"u">>, S(<<"U", "T">>)>>, <<<<"r">>, S(<<"R", "t">>)>> >>

AlertsByDeviceType == << <<<<"u">>, << <<<<"1", "0", "0">>, <<"T", "h", "e", "r", "m", "a", "l">>>> >>>> >>

IdX == S(<<"X">>)
IdIpX == S(P_ip \o <<"X">>)
Ts == N(1)
Ip1 == S(<<"1", ".", "1", ".", "1", ".", "1">>)
Ip2 == S(<<"2", ".", "2", ".", "2", ".", "2">>)
SomeAlerts == L(<<S(<<"1", "0", "0">>), None, N(999)>>)

\* (DeviceId, UtcTimestampNs) of the user-terminal entries
UtIdTs == {<<IdX, Ts>>, <<None, Ts>>, <<IdX, None>>}

\* the two free fields of the user-terminal entries: both numeric, both
\* textual, a list and an empty string
UtFields ==
    { <<N(5), S(<<"3", ".", "5", "0">>)>>,
      <<S(<<"o", "k">>), S(<<"n", "o">>)>>,
      <<L(<<S(<<"a">>), None, S(<<"b">>)>>), S(<<>>)>> }

UtEntries ==
    { <<CodeUserTerminal, it[1], it[2], al, fs[1], fs[2]>> :
        it \in UtIdTs, al \in {None, SomeAlerts}, fs \in UtFields }

IpEntries ==
    { <<CodeIp, IdIpX, Ts, L(<<Ip1, Ip2>>)>>,
      <<CodeIp, IdX, Ts, L(<<Ip1, Ip2>>)>>,
      <<CodeIp, IdX, Ts, Ip1>>,
      <<CodeIp, IdX, None, L(<<Ip1, Ip2>>)>>,
      <<CodeIp, None, Ts, L(<<Ip1, Ip2>>)>>,
      <<CodeIp, IdIpX, None, Ip1>> }

\* an empty entry, a router, a device type without schema, an entry shorter
\* than its schema and an entry longer than its schema
OddEntries ==
    { <<>>,
      <<CodeRouter, IdX, Ts>>,
      <<S(<<"x">>), IdX, Ts>>,
      <<CodeUserTerminal, IdX>>,
      <<CodeIp, IdX, Ts, Ip1, N(7)>> }

Entries == UtEntries \cup IpEntries \cup OddEntries

RECURSIVE SeqsUpTo(_, _)
SeqsUpTo(set, n) ==
    IF n = 0 THEN {<<>>}
    ELSE LET shorter == SeqsUpTo(set, n - 1)
         IN  shorter \cup {Append(s, x) : s \in shorter, x \in set}

SuccessResponse(values) ==
    [status |-> 200,
     values |-> values,
     columnNamesByDeviceType |-> ColumnNamesByDeviceType,
     DeviceType |-> DeviceTypeNames,
     AlertsByDeviceType |-> AlertsByDeviceType]

\* a response the stream endpoint rejects: no body is read from it
FailureResponse == [status |-> 401, values |-> <<>>, columnNamesByDeviceType |-> <<>>,
                    DeviceType |-> <<>>, AlertsByDeviceType |-> <<>>]

\* before the first request
NoResponse == [status |-> 0, values |-> <<>>, columnNamesByDeviceType |-> <<>>,
               DeviceType |-> <<>>, AlertsByDeviceType |-> <<>>]

\* every success response of at most MaxEntries entries
PipeResponses == {SuccessResponse(v) : v \in SeqsUpTo(Entries, MaxEntries)}

---------------------------------------------------------------------------
(* poll_stream's two loops over one response. *)

\* the loop over telemetry (src/script.py:289-308), from telemetry[pos] on
RECURSIVE DecodeFrom(_, _, _, _)
DecodeFrom(telemetry, column_names_by_type, pos, acc) ==
    IF pos > Len(telemetry) THEN acc
    ELSE LET entry == telemetry[pos]
             device_type_code == entry[1]
             columns == GetByValue(column_names_by_type, device_type_code, <<>>)
             record == map_entry_to_record(entry, columns)
             device_id == Get(record, K_DeviceId, None)
         IN  IF entry = <<>> \/ entry[1] = CodeRouter
             THEN DecodeFrom(telemetry, column_names_by_type, pos + 1, acc)
             ELSE IF columns = <<>>
             THEN DecodeFrom(telemetry, column_names_by_type, pos + 1, acc)
             ELSE DecodeFrom(telemetry, column_names_by_type, pos + 1,
                    [records |-> Append(acc.records, record),
                     ip_lookup |-> IF device_type_code = CodeIp /\ Truthy(device_id)
                                   THEN Put(acc.ip_lookup, device_id, record)
                                   ELSE acc.ip_lookup])

DecodeAll(resp) ==
    DecodeFrom(resp.values, resp.columnNamesByDeviceType, 1,
               [records |-> <<>>, ip_lookup |-> <<>>])

\* what the loop over records prints for one record (src/script.py:313-322)
Emitted(record, resp, lookup) ==
    [lines |-> format_line_protocol(record, resp.DeviceType, lookup),
     alert_lines |-> format_alert_lines(record, resp.DeviceType, resp.AlertsByDeviceType)]

\* collected_lines after the loop over records (src/script.py:311-322)
Collect(printed) ==
    Flatten([i \in DOMAIN printed |-> printed[i].lines \o printed[i].alert_lines])

---------------------------------------------------------------------------
(* The poll_stream thread. *)

\* the cadence in  max(0, 15 - elapsed_time)
Cadence == 15

Handlers == 1..NumHandlers

LockFree == <<"free", 0>>
LockPoller == <<"poller", 0>>
LockHandler(h) == <<"handler", h>>

\* how long a stream request may take: just under the cadence, or longer
RequestDurations == {Cadence - 1, MaxDuration}
\* how long decoding, rendering and printing a response may take
ProcessDurations == {0, 1}

\* the telemetry of the responses the poller's cycles draw from: no values,
\* one record with metrics, one with alerts and info, and one record that
\* renders to no line
PollValues ==
    { <<>>,
      <<<<CodeUserTerminal, IdX, Ts, None, N(5), S(<<"3", ".", "5", "0">>)>>>>,
      <<<<CodeUserTerminal, IdX, Ts, SomeAlerts, S(<<"o", "k">>), S(<<"n", "o">>)>>>>,
      <<<<CodeUserTerminal, IdX, None, None, N(5), S(<<>>)>>>> }

PollResponses == {SuccessResponse(v) : v \in PollValues}

\* get_starlink_access_token (src/script.py:54-63) answered: the auth server
\* issues a token it has not issued before
IssueToken ==
    /\ tokens_issued' = tokens_issued + 1
    /\ access_token' = tokens_issued + 1

\* access_token = get_starlink_access_token()  (src/script.py:252)
AcquireToken ==
    /\ pc = "acquire"
    /\ IssueToken
    /\ pc' = "serve"
    /\ UNCHANGED <<response, request_token, records, ip_lookup, stdout, collected_lines,
                   latest_lines, latest_lock, write_idx, elapsed, sleep_duration, slept,
                   fail_streak, h_pc, h_body, last_success,
                   any_success, last_published>>

\* the same call raising: nothing in poll_stream catches it
AcquireTokenFails ==
    /\ pc = "acquire"
    /\ pc' = "startup_failed"
    /\ UNCHANGED <<access_token, tokens_issued, response, request_token, records, ip_lookup,
                   stdout, collected_lines, latest_lines, latest_lock, write_idx, elapsed,
                   sleep_duration, slept, fail_streak, h_pc, h_body,
                   last_success, any_success, last_published>>

\* start_http_server(METRICS_PORT)  (src/script.py:48-52, 253)
StartHttpServer ==
    /\ pc = "serve"
    /\ h_pc' = [h \in Handlers |-> "idle"]
    /\ pc' = "request"
    /\ UNCHANGED <<access_token, tokens_issued, response, request_token, records, ip_lookup,
                   stdout, collected_lines, latest_lines, latest_lock, write_idx, elapsed,
                   sleep_duration, slept, fail_streak, h_body,
                   last_success, any_success, last_published>>

\* start_time = time.time(); response = requests.post(...)  (src/script.py:256-270)
\* answered with a success
RequestSucceeds ==
    /\ pc = "request"
    /\ \E resp \in PollResponses, d \in RequestDurations :
          /\ response' = resp
          /\ elapsed' = d
    /\ request_token' = access_token
    /\ slept' = FALSE
    /\ fail_streak' = 0
    /\ pc' = "status"
    /\ UNCHANGED <<access_token, tokens_issued, records, ip_lookup, stdout, collected_lines,
                   latest_lines, latest_lock, write_idx, sleep_duration, h_pc, h_body, last_success, any_success, last_published>>

\* the same request answered with a non-success status
RequestRejected ==
    /\ pc = "request"
    /\ tokens_issued < MaxTokens
    /\ response' = FailureResponse
    /\ \E d \in RequestDurations : elapsed' = d
    /\ request_token' = access_token
    /\ slept' = FALSE
    /\ fail_streak' = fail_streak + 1
    /\ pc' = "status"
    /\ UNCHANGED <<access_token, tokens_issued, records, ip_lookup, stdout, collected_lines,
                   latest_lines, latest_lock, write_idx, sleep_duration, h_pc, h_body, last_success, any_success, last_published>>

\* the same request raising a network error: nothing in poll_stream catches
\* it, the main thread ends and takes the daemon server thread with it
RequestRaises ==
    /\ pc = "request"
    /\ pc' = "crashed"
    /\ slept' = FALSE
    /\ request_token' = access_token
    /\ UNCHANGED <<access_token, tokens_issued, response, records, ip_lookup, stdout,
                   collected_lines, latest_lines, latest_lock, write_idx, elapsed,
                   sleep_duration, fail_streak, h_pc, h_body,
                   last_success, any_success, last_published>>

\* if (response.status_code != 200) ... else ... if (len(telemetry) == 0): continue
\* (src/script.py:272-283)
CheckStatus ==
    /\ pc = "status"
    /\ IF response.status # 200 THEN
            /\ pc' = "refresh"
            /\ UNCHANGED <<last_success, any_success, last_published>>
       ELSE IF Len(response.values) = 0 THEN
            /\ pc' = "request"
            /\ last_success' = <<>>
            /\ any_success' = TRUE
            /\ UNCHANGED last_published
       ELSE /\ pc' = "decode"
            /\ UNCHANGED <<last_success, any_success, last_published>>
    /\ UNCHANGED <<access_token, tokens_issued, response, request_token, records, ip_lookup,
                   stdout, collected_lines, latest_lines, latest_lock, write_idx, elapsed,
                   sleep_duration, slept, fail_streak, h_pc, h_body>>

\* the refresh left out: back to the request with the rejected token
RefreshTokenSkipped ==
    /\ pc = "refresh"
    /\ pc' = "request"
    /\ UNCHANGED <<access_token, tokens_issued, response, request_token, records, ip_lookup,
                   stdout, collected_lines, latest_lines, latest_lock, write_idx, elapsed,
                   sleep_duration, slept, fail_streak, h_pc, h_body, last_success,
                   any_success, last_published>>

\* access_token = get_starlink_access_token()  (src/script.py:274)
RefreshToken ==
    /\ pc = "refresh"
    /\ IssueToken
    /\ pc' = "request"
    /\ UNCHANGED <<response, request_token, records, ip_lookup, stdout, collected_lines,
                   latest_lines, latest_lock, write_idx, elapsed, sleep_duration, slept,
                   fail_streak, h_pc, h_body, last_success,
                   any_success, last_published>>

\* the same call raising
RefreshTokenFails ==
    /\ pc = "refresh"
    /\ pc' = "crashed"
    /\ UNCHANGED <<access_token, tokens_issued, response, request_token, records, ip_lookup,
                   stdout, collected_lines, latest_lines, latest_lock, write_idx, elapsed,
                   sleep_duration, slept, fail_streak, h_pc, h_body,
                   last_success, any_success, last_published>>

\* the loop over telemetry  (src/script.py:285-308)
Decode ==
    /\ pc = "decode"
    /\ LET decoded == DecodeAll(response)
       IN  /\ records' = decoded.records
           /\ ip_lookup' = decoded.ip_lookup
    /\ pc' = "render"
    /\ UNCHANGED <<access_token, tokens_issued, response, request_token, stdout,
                   collected_lines, latest_lines, latest_lock, write_idx, elapsed,
                   sleep_duration, slept, fail_streak, h_pc, h_body,
                   last_success, any_success, last_published>>

\* the loop over records  (src/script.py:311-322)
Render ==
    /\ pc = "render"
    /\ LET printed == [i \in DOMAIN records |-> Emitted(records[i], response, ip_lookup)]
       IN  /\ stdout' = printed
           /\ collected_lines' = Collect(printed)
    /\ \E d \in ProcessDurations : elapsed' = elapsed + d
    /\ pc' = "lock"
    /\ UNCHANGED <<access_token, tokens_issued, response, request_token, records, ip_lookup,
                   latest_lines, latest_lock, write_idx, sleep_duration, slept, fail_streak,
                   h_pc, h_body, last_success, any_success, last_published>>

\* with latest_lock:  entered  (src/script.py:324)
PollerLock ==
    /\ pc = "lock"
    /\ latest_lock = LockFree
    /\ latest_lock' = LockPoller
    /\ write_idx' = 0
    /\ pc' = "write"
    /\ UNCHANGED <<access_token, tokens_issued, response, request_token, records, ip_lookup,
                   stdout, collected_lines, latest_lines, elapsed, sleep_duration, slept,
                   fail_streak, h_pc, h_body, last_success,
                   any_success, last_published>>

\* latest_lines[:] = collected_lines  (src/script.py:325), one item at a
\* time: item write_idx is stored over the old item or appended, and after
\* the last one the list is cut to the new length
PollerWrite ==
    /\ pc = "write"
    /\ IF write_idx < Len(collected_lines) THEN
            /\ latest_lines' =
                  IF write_idx < Len(latest_lines)
                  THEN [latest_lines EXCEPT ![write_idx + 1] = collected_lines[write_idx + 1]]
                  ELSE Append(latest_lines, collected_lines[write_idx + 1])
            /\ write_idx' = write_idx + 1
            /\ pc' = "write"
       ELSE /\ latest_lines' = SubSeq(latest_lines, 1, Len(collected_lines))
            /\ write_idx' = 0
            /\ pc' = "unlock"
    /\ UNCHANGED <<access_token, tokens_issued, response, request_token, records, ip_lookup,
                   stdout, collected_lines, latest_lock, elapsed, sleep_duration, slept,
                   fail_streak, h_pc, h_body, last_success,
                   any_success, last_published>>

\* with latest_lock:  left  (src/script.py:324-325)
PollerUnlock ==
    /\ pc = "unlock"
    /\ latest_lock' = LockFree
    /\ last_success' = collected_lines
    /\ last_published' = collected_lines
    /\ any_success' = TRUE
    /\ pc' = "sleep"
    /\ UNCHANGED <<access_token, tokens_issued, response, request_token, records, ip_lookup,
                   stdout, collected_lines, latest_lines, write_idx, elapsed, sleep_duration,
                   slept, fail_streak, h_pc, h_body>>

\* max(0, 15 - elapsed_time) without the max
SleepDurationUnclamped(elapsed_time) == Cadence - elapsed_time

\* sleep_duration = max(0, 15 - elapsed_time)  (src/script.py:328)
SleepDuration(elapsed_time) == Max(0, Cadence - elapsed_time)

\* elapsed_time = time.time() - start_time; ...; time.sleep(sleep_duration)
\* (src/script.py:327-329)
Sleep ==
    /\ pc = "sleep"
    /\ sleep_duration' = SleepDuration(elapsed)
    /\ slept' = TRUE
    /\ pc' = "request"
    /\ UNCHANGED <<access_token, tokens_issued, response, request_token, records, ip_lookup,
                   stdout, collected_lines, latest_lines, latest_lock, write_idx, elapsed,
                   fail_streak, h_pc, h_body, last_success,
                   any_success, last_published>>

---------------------------------------------------------------------------
(* The GET handler threads of the HTTP server. *)

NoBody == [kind |-> "none", lines |-> <<>>]

\* "\n".join(latest_lines) + "\n", whatever latest_lines holds
BodyWithoutPlaceholder(lines) == [kind |-> "lines", lines |-> lines]

\* body = "\n".join(latest_lines) + "\n" if latest_lines else "# no data yet\n"
\* (src/script.py:37): the text is kept as the lines it joins
Body(lines) ==
    IF lines # <<>> THEN [kind |-> "lines", lines |-> lines]
    ELSE [kind |-> "placeholder", lines |-> <<>>]

HandlerUnchanged ==
    UNCHANGED <<pc, access_token, tokens_issued, response, request_token, records,
                ip_lookup, stdout, collected_lines, latest_lines, write_idx, elapsed,
                sleep_duration, slept, fail_streak, last_success,
                last_published, any_success>>

\* the main thread is alive: the server thread is a daemon thread
ServerRuns == pc \notin {"crashed", "startup_failed"}

\* a request arrives; if self.path != "/metrics"  (src/script.py:30-31)
HandlerGet(h) ==
    /\ ServerRuns
    /\ h_pc[h] = "idle"
    /\ \E path \in {"/metrics", "/"} :
          h_pc' = [h_pc EXCEPT ![h] = IF path # "/metrics" THEN "not_found" ELSE "lock"]
    /\ UNCHANGED <<latest_lock, h_body>>
    /\ HandlerUnchanged

\* self.send_response(404); self.end_headers(); return  (src/script.py:32-34)
HandlerNotFound(h) ==
    /\ ServerRuns
    /\ h_pc[h] = "not_found"
    /\ h_pc' = [h_pc EXCEPT ![h] = "idle"]
    /\ UNCHANGED <<latest_lock, h_body>>
    /\ HandlerUnchanged

\* do_GET reading latest_lines without taking latest_lock
HandlerSkipsLock(h) ==
    /\ ServerRuns
    /\ h_pc[h] = "lock"
    /\ h_pc' = [h_pc EXCEPT ![h] = "read"]
    /\ UNCHANGED <<latest_lock, h_body>>
    /\ HandlerUnchanged

\* with latest_lock:  entered  (src/script.py:36)
HandlerLock(h) ==
    /\ ServerRuns
    /\ h_pc[h] = "lock"
    /\ latest_lock = LockFree
    /\ latest_lock' = LockHandler(h)
    /\ h_pc' = [h_pc EXCEPT ![h] = "read"]
    /\ UNCHANGED h_body
    /\ HandlerUnchanged

\* body = ...  (src/script.py:37)
HandlerRead(h) ==
    /\ ServerRuns
    /\ h_pc[h] = "read"
    /\ h_body' = [h_body EXCEPT ![h] = Body(latest_lines)]
    /\ h_pc' = [h_pc EXCEPT ![h] = "unlock"]
    /\ UNCHANGED latest_lock
    /\ HandlerUnchanged

\* with latest_lock:  left, and the response sent: self.send_response(200)
\* ... self.wfile.write(body.encode("utf-8"))  (src/script.py:36-42)
HandlerUnlock(h) ==
    /\ ServerRuns
    /\ h_pc[h] = "unlock"
    /\ latest_lock' = LockFree
    /\ h_pc' = [h_pc EXCEPT ![h] = "idle"]
    /\ h_body' = [h_body EXCEPT ![h] = NoBody]
    /\ HandlerUnchanged

---------------------------------------------------------------------------
(* The specifications. *)

\* the state poll_stream starts in
Init ==
    /\ pc = "acquire"
    /\ access_token = 0
    /\ tokens_issued = 0
    /\ response = NoResponse
    /\ request_token = 0
    /\ records = <<>>
    /\ ip_lookup = <<>>
    /\ stdout = <<>>
    /\ collected_lines = <<>>
    /\ latest_lines = <<>>
    /\ latest_lock = LockFree
    /\ write_idx = 0
    /\ elapsed = 0
    /\ sleep_duration = 0
    /\ slept = FALSE
    /\ fail_streak = 0
    /\ h_pc = [h \in Handlers |-> "off"]
    /\ h_body = [h \in Handlers |-> NoBody]
    /\ last_success = <<>>
    /\ last_published = <<>>
    /\ any_success = FALSE

Next ==
    \/ AcquireToken
    \/ AcquireTokenFails
    \/ StartHttpServer
    \/ RequestSucceeds
    \/ RequestRejected
    \/ RequestRaises
    \/ CheckStatus
    \/ RefreshToken
    \/ RefreshTokenFails
    \/ Decode
    \/ Render
    \/ PollerLock
    \/ PollerWrite
    \/ PollerUnlock
    \/ Sleep
    \/ \E h \in Handlers : HandlerGet(h)
    \/ \E h \in Handlers : HandlerNotFound(h)
    \/ \E h \in Handlers : HandlerLock(h)
    \/ \E h \in Handlers : HandlerRead(h)
    \/ \E h \in Handlers : HandlerUnlock(h)

\* the poller and the handlers, over the responses of PollResponses
Spec == Init /\ [][Next]_vars

\* one cycle at the start of its processing, for any response of PipeResponses
InitPipe ==
    /\ pc = "decode"
    /\ access_token = 1
    /\ tokens_issued = 1
    /\ response \in PipeResponses
    /\ Len(response.values) > 0
    /\ request_token = 1
    /\ records = <<>>
    /\ ip_lookup = <<>>
    /\ stdout = <<>>
    /\ collected_lines = <<>>
    /\ latest_lines = <<>>
    /\ latest_lock = LockFree
    /\ write_idx = 0
    /\ elapsed = 0
    /\ sleep_duration = 0
    /\ slept = FALSE
    /\ fail_streak = 0
    /\ h_pc = [h \in Handlers |-> "idle"]
    /\ h_body = [h \in Handlers |-> NoBody]
    /\ last_success = <<>>
    /\ last_published = <<>>
    /\ any_success = FALSE

NextPipe ==
    \/ Decode
    \/ Render

\* the decoding and rendering of one response, over every response of
\* PipeResponses
SpecPipe == InitPipe /\ [][NextPipe]_vars

---------------------------------------------------------------------------
(* Claims about the poller and the handlers, checked under Spec. *)

\* handler h has built its body and still holds latest_lock
HasRead(h) == h_pc[h] = "unlock"

Placeholder == [kind |-> "placeholder", lines |-> <<>>]
Verbatim(lines) == [kind |-> "lines", lines |-> lines]

\* C1: the body a GET /metrics handler builds is the body of the complete
\* line list of one cycle: of the latest cycle whose publish completed, or of
\* the cycle rendered last; never a mixture of two cycles' lines and never a
\* partly written list.
C1_BodyOfOneCycle ==
    \A h \in Handlers :
        HasRead(h) => h_body[h] \in {Body(last_published), Body(collected_lines)}

\* C1 witness: a handler holds the previous cycle's lines under the lock
\* while the poller waits for the lock with the different lines of the next.
C1_Witness ==
    \E h \in Handlers :
        /\ HasRead(h)
        /\ pc = "lock"
        /\ last_published # <<>>
        /\ collected_lines # last_published
        /\ h_body[h] = Verbatim(last_published)

\* C2 as claimed: the body a pull builds is, at the moment it is built, the
\* verbatim lines of the latest completed success cycle, and the placeholder
\* only while no success cycle has completed; cycles with no values or no
\* lines included.
C2_Original ==
    [][ \A h \in Handlers :
            (h_pc[h] = "read" /\ h_pc'[h] = "unlock") =>
                h_body'[h] = IF any_success THEN Verbatim(last_success) ELSE Placeholder
      ]_vars

\* C2 as amended: the snapshot is replaced by every success cycle whose
\* values list is not empty and by no other; a pull returns verbatim the
\* lines of the latest such cycle, and the placeholder body whenever that
\* list is empty (no such cycle yet, or it rendered no line).
C2_LatestPublished ==
    /\ latest_lock # LockPoller => latest_lines = last_published
    /\ \A h \in Handlers :
          HasRead(h) =>
              h_body[h] = IF last_published # <<>> THEN Verbatim(last_published)
                          ELSE Placeholder

\* C2 witness: a handler reads right after a success cycle with no values
\* that followed a cycle with lines, and gets the older cycle's lines.
C2_Witness ==
    \E h \in Handlers :
        /\ HasRead(h)
        /\ pc = "request"
        /\ response.status = 200
        /\ response.values = <<>>
        /\ last_success = <<>>
        /\ h_body[h].kind = "lines"

\* C3 as claimed: whenever the poller is about to issue a request after a
\* success response, it has slept max(0, 15 - elapsed) since that response.
C3_Original ==
    (pc = "request" /\ response.status = 200) =>
        /\ slept
        /\ sleep_duration = (IF elapsed >= Cadence THEN 0 ELSE Cadence - elapsed)

\* C3 as amended: after a success response with at least one telemetry
\* entry the poller sleeps max(0, 15 - elapsed) seconds, never a negative
\* time, before the next request; after a success response with no entry it
\* issues the next request without sleeping.
C3_SleepAfterValues ==
    (pc = "request" /\ response.status = 200) =>
        IF Len(response.values) > 0
        THEN /\ slept
             /\ sleep_duration = (IF elapsed >= Cadence THEN 0 ELSE Cadence - elapsed)
             /\ sleep_duration >= 0
        ELSE ~slept

\* C3 witness: a cycle with values took longer than the cadence and the
\* poller is back at the request after a sleep of 0.
C3_Witness ==
    /\ pc = "request"
    /\ response.status = 200
    /\ Len(response.values) > 0
    /\ elapsed > Cadence
    /\ slept
    /\ sleep_duration = 0

\* C4: after a non-success response the poller goes to the token refresh
\* with nothing decoded, printed or published; the refresh is one token
\* acquisition, whose token differs from the rejected one and is the one the
\* next request carries; no other step of the loop touches the token.
C4_RefreshOnReject ==
    [][ /\ (pc = "status" /\ pc' # pc /\ response.status # 200) =>
              /\ pc' = "refresh"
              /\ UNCHANGED <<records, ip_lookup, stdout, collected_lines, latest_lines,
                             latest_lock, access_token, tokens_issued>>
        /\ (pc = "status" /\ pc' # pc /\ response.status = 200) => pc' # "refresh"
        /\ (pc = "refresh" /\ pc' = "request") =>
              /\ tokens_issued' = tokens_issued + 1
              /\ access_token' # request_token
              /\ UNCHANGED <<records, ip_lookup, stdout, collected_lines, latest_lines,
                             latest_lock>>
        /\ (pc = "request" /\ pc' = "status") => request_token' = access_token
        /\ (pc \notin {"acquire", "refresh"}) => UNCHANGED <<access_token, tokens_issued>>
      ]_vars

\* C4 witness: a request went out with the token of a refresh.
C4_Witness ==
    /\ pc = "status"
    /\ tokens_issued > 1
    /\ request_token = tokens_issued
    /\ response.status = 200

\* the delay before the retry that follows k failures in a row: 1, 2, 4, ...
\* capped at 60
Backoff(k) == Min(2 ^ (k - 1), 60)

\* C5 as claimed: no failure of a network call ends the poller, and the
\* request that follows k failures in a row comes after a delay of
\* Backoff(k).
C5_Original ==
    /\ pc # "crashed"
    /\ (pc = "request" /\ fail_streak > 0) =>
          (slept /\ sleep_duration = Backoff(fail_streak))

---------------------------------------------------------------------------
(* Claims about the decoding and rendering of one response, checked under  *)
(* SpecPipe.  After Decode, records holds the cycle's records; after       *)
(* Render, stdout[i] holds what was printed for records[i].                *)

Decoded == pc \in {"render", "lock"}
Rendered == pc = "lock"

TypeOf(record) == Get(record, K_DeviceType, None)
IdOf(record) == Get(record, K_DeviceId, None)
TsOf(record) == Get(record, K_UtcTimestampNs, None)

\* a line  starlink_<Ipv4|Ipv6Ue|Ipv6Cpe>_numeric...
IsIpLine(line) ==
    \E k \in DOMAIN IP_FIELDS :
        StartsWith(line.name, sanitize_metric_name(P_starlink \o IP_FIELDS[k] \o P_numeric))

\* C6 as claimed: for a record without device id or without timestamp the
\* cycle prints nothing: no metric, info or IP line and no alert line.
C6_Original ==
    Rendered =>
        \A i \in DOMAIN records :
            (IdOf(records[i]) = None \/ TsOf(records[i]) = None) =>
                (stdout[i].lines = <<>> /\ stdout[i].alert_lines = <<>>)

\* C7 as claimed: a record of the IP-allocation type prints no metric line
\* of a field and no info line: whatever it prints is an IP line.
C7_Original ==
    Rendered =>
        \A i \in DOMAIN records :
            TypeOf(records[i]) = CodeIp =>
                \A k \in DOMAIN stdout[i].lines : IsIpLine(stdout[i].lines[k])

\* the addresses of an IP field: the list, or the one value
Addresses(raw_val) ==
    IF IsNoneOrEmptyStr(raw_val) THEN <<>>
    ELSE IF IsList(raw_val) THEN raw_val.l ELSE <<raw_val>>

\* C8 as claimed: an IP-allocation record with device id "ip-X" is joined to
\* the other record of the cycle with device id X: that record's lines carry
\* every address of the allocation.
C8_Original ==
    Rendered =>
        \A i, j \in DOMAIN records :
            ( /\ TypeOf(records[i]) = CodeIp
              /\ IsStr(IdOf(records[i]))
              /\ StartsWith(IdOf(records[i]).s, P_ip)
              /\ TypeOf(records[j]) # CodeIp
              /\ IdOf(records[j]) = S(Drop(IdOf(records[i]).s, 3))
              /\ TsOf(records[j]) # None ) =>
                LET addresses == Addresses(Get(records[i], K_Ipv4, None))
                IN  \A a \in DOMAIN addresses :
                        ip_to_numeric(addresses[a]) # NoFloat =>
                            \E k \in DOMAIN stdout[j].lines :
                                /\ IsIpLine(stdout[j].lines[k])
                                /\ stdout[j].lines[k].value = ip_to_numeric(addresses[a])

\* the entries the loop over telemetry keeps: not empty, not a router, of a
\* device type with a schema
IsKept(entry) ==
    /\ entry # <<>>
    /\ entry[1] # CodeRouter
    /\ GetByValue(response.columnNamesByDeviceType, entry[1], <<>>) # <<>>

KeptEntries == SelectSeq(response.values, IsKept)

ColumnsOf(entry) == GetByValue(response.columnNamesByDeviceType, entry[1], <<>>)

\* C9 as claimed: the record of a kept entry maps column k of the schema to
\* element k + 1 of the entry, for every k with k + 1 inside the entry
\* (columns and elements counted from 0; here positions count from 1).
C9_Original ==
    Decoded =>
        /\ Len(records) = Len(KeptEntries)
        /\ \A j \in DOMAIN records :
              LET entry == KeptEntries[j]
                  columns == ColumnsOf(entry)
              IN  \A k \in DOMAIN columns :
                      k + 1 <= Len(entry) =>
                          /\ Has(records[j], columns[k])
                          /\ Get(records[j], columns[k], None) = entry[k + 1]

\* C9 as amended: the record of a kept entry maps column k of the schema to
\* element k of the entry (element 0, the device-type code, goes to column
\* 0), for every k inside the entry; columns without a value are left unset
\* and values beyond the schema are ignored.  The schemas' column names are
\* distinct.
C9_ColumnKToElementK ==
    Decoded =>
        /\ Len(records) = Len(KeptEntries)
        /\ \A j \in DOMAIN records :
              LET entry == KeptEntries[j]
                  columns == ColumnsOf(entry)
              IN  /\ Len(records[j]) = Min(Len(columns), Len(entry))
                  /\ \A k \in DOMAIN columns :
                        IF k <= Len(entry)
                        THEN /\ Has(records[j], columns[k])
                             /\ Get(records[j], columns[k], None) = entry[k]
                        ELSE ~Has(records[j], columns[k])

\* C9 witness: a cycle decoded an entry shorter than its schema and an entry
\* longer than its schema.
C9_Witness ==
    /\ pc = "render"
    /\ \E j \in DOMAIN records :
          /\ Len(KeptEntries[j]) < Len(ColumnsOf(KeptEntries[j]))
          /\ Len(records[j]) = Len(KeptEntries[j])
    /\ \E j \in DOMAIN records :
          /\ Len(KeptEntries[j]) > Len(ColumnsOf(KeptEntries[j]))
          /\ Len(records[j]) = Len(ColumnsOf(KeptEntries[j]))

\* the fields of a record the classification is about: not id, timestamp,
\* device type or an alert field, and with a cleaned value that is not empty
ClassifiedFields(record) ==
    { p \in DOMAIN record :
        /\ record[p][1] \notin {K_DeviceType, K_UtcTimestampNs, K_DeviceId}
        /\ record[p][1] \notin Range(ALERT_FIELDS)
        /\ clean_field_value(record[p][2]) \notin {None, S(<<>>)} }

\* C10 as claimed: for a record that is not an IP allocation and has id and
\* timestamp, every such field is in the printed lines: a numeric one as a
\* metric line of its name and value, any other as the label of its name,
\* holding its value, on the info line.
C10_Original ==
    Rendered =>
        \A i \in DOMAIN records :
            ( /\ TypeOf(records[i]) # CodeIp
              /\ IdOf(records[i]) # None
              /\ TsOf(records[i]) # None ) =>
                \A p \in ClassifiedFields(records[i]) :
                    LET key == records[i][p][1]
                        cleaned == clean_field_value(records[i][p][2])
                        lines == stdout[i].lines
                    IN  IF to_float(cleaned) # NoFloat
                        THEN \E k \in DOMAIN lines :
                                /\ lines[k].name = sanitize_metric_name(P_starlink \o key)
                                /\ lines[k].value = to_float(cleaned)
                        ELSE \E k \in DOMAIN lines :
                                /\ lines[k].name = M_starlink_info
                                /\ \E l \in DOMAIN lines[k].labels :
                                      lines[k].labels[l] =
                                          <<sanitize_metric_name(Lower(key)),
                                            sanitize_label_value(S(Str(cleaned)))>>

=============================================================================
